---- MODULE Spec2Model ----
(***************************************************************************)
(* The relay protocol client of gmsv_remote_extension: RelayClient         *)
(* (src/src/extension/modules/relay.ts), the XOR transform (xor.ts) and    *)
(* the callers that drive it (fileSystemProvider.ts, searchProvider.ts).   *)
(***************************************************************************)
EXTENDS Integers, Sequences, FiniteSets, TLC

\* ------------------------------------------------------------------ bounds
\* Each specification fixes its own bounds in the variable `limit`:
\*   transports  connect() calls (transports created) in one run
\*   calls       rpc() calls in one run, accepted and rejected together
\*   frames      binary frames the server sends in one run
RpcMaxTransports == 1
RpcMaxCalls == 2
ReconnectMaxTransports == 2
ReconnectMaxCalls == 2
StreamMaxCalls == 1
StreamMaxFrames == 2
MuxMaxFrames == 2
ConnectMaxTransports == 2

\* ------------------------------------------------------- transform (pure)
\* Text is a sequence of UTF-8 bytes; a base64 string is a sequence of
\* sextets 0..63, with Pad for '='.
Pad == 63 + 1

\* JS null for the encryption key (string | null); "" is the empty sequence.
null == << 0 - 1 >>

RECURSIVE BitXor(_, _)
BitXor(a, b) ==
    IF a = 0 THEN b
    ELSE IF b = 0 THEN a
    ELSE (((a % 2) + (b % 2)) % 2) + 2 * BitXor(a \div 2, b \div 2)

\* xor.ts: out[i] = data[i] ^ keyBuf[i % keyBuf.length]
xorBuffer_Add(data, key) ==
    [i \in 1..Len(data) |-> (data[i] + key[((i - 1) % Len(key)) + 1]) % 256]
xorBuffer(data, key) ==
    [i \in 1..Len(data) |-> BitXor(data[i], key[((i - 1) % Len(key)) + 1])]

\* Buffer.toString("base64")
RECURSIVE toBase64(_)
toBase64(b) ==
    IF Len(b) = 0 THEN << >>
    ELSE IF Len(b) = 1 THEN << b[1] \div 4, (b[1] % 4) * 16, Pad, Pad >>
    ELSE IF Len(b) = 2 THEN
        << b[1] \div 4, (b[1] % 4) * 16 + (b[2] \div 16), (b[2] % 16) * 4, Pad >>
    ELSE << b[1] \div 4, (b[1] % 4) * 16 + (b[2] \div 16),
            (b[2] % 16) * 4 + (b[3] \div 64), b[3] % 64 >>
         \o toBase64(SubSeq(b, 4, Len(b)))

\* Buffer.from(s, "base64"): lenient, never throws; characters outside the
\* alphabet are skipped and decoding stops at the first '='.
RECURSIVE UntilPad(_)
UntilPad(s) ==
    IF Len(s) = 0 \/ s[1] = Pad THEN << >>
    ELSE IF s[1] \in 0..63 THEN << s[1] >> \o UntilPad(Tail(s))
    ELSE UntilPad(Tail(s))

RECURSIVE fromSextets(_)
fromSextets(s) ==
    IF Len(s) < 2 THEN << >>
    ELSE IF Len(s) = 2 THEN << s[1] * 4 + (s[2] \div 16) >>
    ELSE IF Len(s) = 3 THEN
        << s[1] * 4 + (s[2] \div 16), (s[2] % 16) * 16 + (s[3] \div 4) >>
    ELSE << s[1] * 4 + (s[2] \div 16), (s[2] % 16) * 16 + (s[3] \div 4),
            (s[3] % 4) * 64 + s[4] >>
         \o fromSextets(SubSeq(s, 5, Len(s)))

fromBase64(s) == fromSextets(UntilPad(s))

\* UTF-8 bytes of the identifiers and literals that occur in the payloads.
Utf8(s) ==
    CASE s = "success" -> << 115, 117, 99, 99, 101, 115, 115 >>
      [] s = "error_code" -> << 101, 114, 114, 111, 114, 95, 99, 111, 100, 101 >>
      [] s = "requestId" -> << 114, 101, 113, 117, 101, 115, 116, 73, 100 >>
      [] s = "size" -> << 115, 105, 122, 101 >>
      [] s = "path" -> << 112, 97, 116, 104 >>
      [] s = "true" -> << 116, 114, 117, 101 >>
      [] s = "false" -> << 102, 97, 108, 115, 101 >>
      [] s = "file_not_found" ->
            << 102, 105, 108, 101, 95, 110, 111, 116, 95, 102, 111, 117, 110, 100 >>
      [] s = "connection_lost" ->
            << 99, 111, 110, 110, 101, 99, 116, 105, 111, 110, 95, 108, 111, 115, 116 >>
      [] s = "/x" -> << 47, 120 >>
      [] s = "type" -> << 116, 121, 112, 101 >>
      [] s = "bogus" -> << 98, 111, 103, 117, 115 >>
      [] s = "server_rpc_stream_start" ->
            << 115, 101, 114, 118, 101, 114, 95, 114, 112, 99, 95, 115, 116, 114, 101, 97,
               109, 95, 115, 116, 97, 114, 116 >>
      [] s = "null" -> << 110, 117, 108, 108 >>
      [] s = "{" -> << 123 >>
      [] s = "}" -> << 125 >>
      [] s = ":" -> << 58 >>
      [] s = "," -> << 44 >>
      [] s = "quote" -> << 34 >>

RECURSIVE Digits(_)
Digits(n) == IF n < 10 THEN << 48 + n >> ELSE Digits(n \div 10) \o << 48 + (n % 10) >>

\* The order in which the payload objects carry their fields.
FieldOrder == << "type", "success", "error_code", "requestId", "size", "path" >>

JsonValue(f, v) ==
    CASE f = "success" -> IF v THEN Utf8("true") ELSE Utf8("false")
      [] f \in {"type", "error_code", "path"} -> Utf8("quote") \o Utf8(v) \o Utf8("quote")
      [] f \in {"requestId", "size"} -> Digits(v)

RECURSIVE JsonFields(_, _, _)
JsonFields(obj, i, first) ==
    IF i > Len(FieldOrder) THEN << >>
    ELSE IF FieldOrder[i] \in DOMAIN obj THEN
        (IF first THEN << >> ELSE Utf8(","))
        \o Utf8("quote") \o Utf8(FieldOrder[i]) \o Utf8("quote") \o Utf8(":")
        \o JsonValue(FieldOrder[i], obj[FieldOrder[i]])
        \o JsonFields(obj, i + 1, FALSE)
    ELSE JsonFields(obj, i + 1, first)

\* JSON.stringify of a payload object
JSONstringify(obj) == Utf8("{") \o JsonFields(obj, 1, TRUE) \o Utf8("}")

\* The response objects a server sends (RelayRPCResponse and FS.Stat's).
ResponseObjects ==
    { [success |-> TRUE],
      [success |-> FALSE, error_code |-> "file_not_found"],
      [success |-> TRUE, requestId |-> 9, size |-> 42] }

\* The request payloads the callers pass to rpc().
RequestObjects == { [path |-> "/x"] }

JsonObjects == ResponseObjects \cup RequestObjects

\* The JSON text of every payload object.
JsonText == [o \in JsonObjects |-> JSONstringify(o)]

\* JSON.parse over the texts of JsonObjects; any other text is a SyntaxError.
JSONparse(text) ==
    IF \E o \in JsonObjects : JsonText[o] = text
    THEN [threw |-> FALSE, value |-> CHOOSE o \in JsonObjects : JsonText[o] = text]
    ELSE [threw |-> TRUE, value |-> "SyntaxError"]

NoKey(encryptionKey) == encryptionKey = null \/ Len(encryptionKey) = 0

\* relay.ts encode(): JSON -> utf8 -> optional XOR -> base64
encode(data, encryptionKey) ==
    IF NoKey(encryptionKey) THEN toBase64(JSONstringify(data))
    ELSE toBase64(xorBuffer(JSONstringify(data), encryptionKey))

\* relay.ts decode() with isBinary = true: the raw bytes, XORed under a key
decodeBinary(data, encryptionKey) ==
    IF NoKey(encryptionKey) THEN data ELSE xorBuffer(data, encryptionKey)

\* relay.ts decode() with isBinary = false: base64 -> optional XOR -> JSON.parse
decode(data, encryptionKey) ==
    IF NoKey(encryptionKey) THEN JSONparse(fromBase64(data))
    ELSE JSONparse(xorBuffer(fromBase64(data), encryptionKey))

\* ------------------------------------------------------------------ state
\* JS undefined / null where the other values are numbers.
None == 0 - 1

VARIABLES
    \* RelayClient fields (relay.ts 45-58)
    ws,                     \* index of the current transport, None before connect()
    requestId,
    connected,
    pending,                \* keys of the pending map; the callback closes over its key
    serverName,
    encryptionKey,
    pendingStreams,         \* requestId -> consumer registered by stream()
    dontAttemptToReconnect,
    pendingBinaryChunk,     \* the marker's requestId, None for null
    \* the environment of the client
    transports,             \* one per connect(): the WebSocket and the closure of its handlers
    timeouts,               \* request IDs whose requestTimeout is armed
    retryTimers,            \* armed setTimeout(...connect...) callbacks
    microtasks,             \* callers resumed by a settled rpc() promise, not yet run
    consumers,              \* one per stream() call: what its callbacks have received
    \* what has happened so far
    issued,                 \* request IDs in the order rpc() allocated them
    rpcPromise,             \* per allocated ID: the calls made to resolve / reject
    rpcAction,              \* per allocated ID: the action of the call
    removed,                \* per allocated ID: how often its entry left the pending map
    rejected,               \* rpc() calls answered with Promise.reject("Not connected")
    sent,                   \* messages written with ws.send()
    frames,                 \* binary frames received, with what the handler found
    overwritten,            \* the marker the latest chunk notice replaced, None if none
    disowned,               \* retry timers that were armed when disconnect() was called
    heartbeat,              \* this.heartbeat: the transport whose open handler set it
    intervals,              \* heartbeat setInterval timers still running, by transport
    lastPong,               \* TRUE while Date.now() - this.lastPong <= 30000
    wirePong,               \* TRUE while a transport-level pong (or the open) is that recent
    lifecycle,              \* the later of the last "connecting" and "disconnected" events
    xform,                  \* a payload and key on their way through encode / decode
    ignored,                \* the last text frame that no branch of the handler took
    lastSearchRequestId,    \* SearchViewProvider.lastSearchRequestId, None for undefined
    faults,                 \* exceptions that left a handler or a method
    limit,                  \* the bounds of the run (never changes)
    codec                   \* the wire payloads and their decode() (never changes)

hbVars == << heartbeat, intervals, lastPong, wirePong >>
connVars == << ws, connected, serverName, encryptionKey, dontAttemptToReconnect,
               transports, retryTimers, disowned, lifecycle, hbVars >>
rpcVars == << requestId, pending, timeouts, issued, rpcPromise, rpcAction, removed,
              rejected, microtasks >>
streamVars == << pendingStreams, pendingBinaryChunk, consumers, frames, overwritten >>
vars == << connVars, rpcVars, streamVars, sent, faults, limit, codec, xform, ignored, lastSearchRequestId >>

\* The servers a user can connect to (types.ts Server): relay URL and key.
Servers ==
    { [relay |-> "wss://a", encryptionKey |-> null],
      [relay |-> "wss://b", encryptionKey |-> << 107 >>] }

Transports == 1..Len(transports)

\* no payload is being transformed
NoTransform == [stage |-> "none"]

\* new RelayClient(): the field initialisers of relay.ts 45-58
Constructed ==
    /\ ws = None
    /\ requestId = 1
    /\ connected = FALSE
    /\ pending = {}
    /\ serverName = ""
    /\ encryptionKey = null
    /\ pendingStreams = << >>
    /\ dontAttemptToReconnect = FALSE
    /\ pendingBinaryChunk = None
    /\ transports = << >>
    /\ timeouts = {}
    /\ retryTimers = {}
    /\ microtasks = {}
    /\ consumers = << >>
    /\ issued = << >>
    /\ rpcPromise = << >>
    /\ rpcAction = << >>
    /\ removed = << >>
    /\ rejected = 0
    /\ sent = {}
    /\ frames = << >>
    /\ overwritten = None
    /\ disowned = {}
    /\ heartbeat = None
    /\ intervals = {}
    /\ lastPong = TRUE
    /\ wirePong = TRUE
    /\ lifecycle = "none"
    /\ ignored = << >>
    /\ lastSearchRequestId = None
    /\ faults = {}

\* ws.send(): throws on a socket that is still CONNECTING, writes on an OPEN
\* one, and drops the data without a callback on a CLOSING / CLOSED one.
WsSendThrows == transports[ws].readyState = "CONNECTING"
WsSend_Any(msg) == sent \cup {[t |-> ws] @@ msg}
WsSend(msg) ==
    IF transports[ws].readyState = "OPEN" THEN sent \cup {[t |-> ws] @@ msg} ELSE sent

\* relay.ts send(): nothing when not connected, else this.ws.send(...)
SendThrows == connected /\ WsSendThrows
send(msg) == IF connected THEN WsSend(msg) ELSE sent

\* if (!settled) { settled = true; resolve() / reject(...) } of one connect()
\* call (relay.ts 160-163, 213-216 and 234-237); settlements counts the calls made
Settle_Unguarded(tr, outcome) ==
    [tr EXCEPT !.settled = TRUE, !.promise = outcome, !.settlements = @ + 1]
Settle(tr, outcome) ==
    IF tr.settled THEN tr
    ELSE [tr EXCEPT !.settled = TRUE, !.promise = outcome, !.settlements = @ + 1]

\* this.emit(event) from connect() or from a handler of its transport
\* (relay.ts 67, 158 and 201)
Emit_Nothing(tr, event) == tr
Emit(tr, event) == [tr EXCEPT !.emitted = @ \cup {event}]

\* connect(): the body up to `new WebSocket` (the handlers are the On... actions)
ConnectBody(server, by) ==
    /\ encryptionKey' = server.encryptionKey
    /\ lifecycle' = "connecting"
    /\ transports' = Append(transports, Emit(
            [readyState |-> "CONNECTING", receiving |-> FALSE, errorDue |-> FALSE,
             settled |-> FALSE, fullyConnected |-> FALSE, promise |-> "pending",
             server |-> server, helloFailures |-> 0,
             settlements |-> 0, emitted |-> {}, closeCalled |-> "no", by |-> by],
            "connecting"))
    /\ ws' = Len(transports) + 1

\* a user (or restoreConnection) calls connect()
Connect(server) ==
    /\ Len(transports) < limit.transports
    /\ server \in limit.servers
    /\ limit.overlap \/ \A t \in Transports : transports[t].readyState = "CLOSED"
    /\ ConnectBody(server, "user")
    /\ UNCHANGED << connected, serverName, dontAttemptToReconnect, retryTimers, disowned,
                    hbVars >>
    /\ UNCHANGED << rpcVars, streamVars, sent, faults, limit, codec, xform, ignored, lastSearchRequestId >>

\* ws.on("open") of transport t (relay.ts 77-98)
OnOpen(t) ==
    /\ transports[t].readyState = "CONNECTING"
    /\ transports' = [transports EXCEPT ![t].readyState = "OPEN", ![t].receiving = TRUE]
    /\ connected' = TRUE
    \* this.send(client_hello) writes to this.ws, which a later connect() may have
    \* replaced; it throws out of the handler when that socket is still CONNECTING
    /\ sent' = IF ws = t \/ transports[ws].readyState = "OPEN"
               THEN sent \cup {[t |-> ws, type |-> "client_hello", requestId |-> None]}
               ELSE sent
    /\ faults' = IF ws = t \/ transports[ws].readyState # "CONNECTING" THEN faults
                 ELSE faults \cup {[in |-> "open", requestId |-> None]}
    \* this.lastPong = Date.now() comes first; this.heartbeat = setInterval(...) is
    \* reached only when the send above did not throw
    /\ lastPong' = TRUE
    /\ wirePong' = TRUE
    /\ IF ws = t \/ transports[ws].readyState # "CONNECTING"
       THEN heartbeat' = t /\ intervals' = intervals \cup {t}
       ELSE UNCHANGED << heartbeat, intervals >>
    /\ UNCHANGED << ws, serverName, encryptionKey, dontAttemptToReconnect, retryTimers,
                    disowned, lifecycle >>
    /\ UNCHANGED << rpcVars, streamVars, limit, codec, xform, ignored, lastSearchRequestId >>

Receiving(t) == transports[t].readyState \in {"OPEN", "CLOSING"} /\ transports[t].receiving

\* a text frame {type: "server_update", serverName} on transport t (relay.ts 152-166)
OnServerUpdate(t, name) ==
    /\ Receiving(t)
    /\ serverName' = name
    /\ transports' = [transports EXCEPT
            ![t] = Settle(Emit([@ EXCEPT !.fullyConnected = TRUE], "connected"),
                          "resolved")]
    /\ UNCHANGED << ws, connected, encryptionKey, dontAttemptToReconnect, retryTimers,
                    disowned, lifecycle, hbVars >>
    /\ UNCHANGED << rpcVars, streamVars, sent, faults, limit, codec, xform, ignored, lastSearchRequestId >>

\* setTimeout(() => {...connect(...)}, delay): a fresh handle for the closure of t
NewTimer(kind, t) ==
    [kind |-> kind, t |-> t,
     n |-> 1 + Cardinality({x \in retryTimers : x.kind = kind /\ x.t = t})]

\* a text frame {type: "client_hello_failure"} on transport t (relay.ts 138-150)
OnClientHelloFailure(t) ==
    /\ Receiving(t)
    \* the server answers a client_hello at most once
    /\ transports[t].helloFailures
            < Cardinality({m \in sent : m.t = t /\ m.type = "client_hello"})
    /\ transports' = [transports EXCEPT ![t].helloFailures = @ + 1]
    /\ retryTimers' = retryTimers \cup {NewTimer("hello", t)}
    /\ UNCHANGED << ws, connected, serverName, encryptionKey, dontAttemptToReconnect,
                    disowned, lifecycle, hbVars >>
    /\ UNCHANGED << rpcVars, streamVars, sent, faults, limit, codec, xform, ignored, lastSearchRequestId >>

\* the callback of either retry timer (relay.ts 141-147 and 221-227)
RetryTimerFires(timer) ==
    /\ timer \in retryTimers
    /\ IF dontAttemptToReconnect \/ connected
       THEN /\ retryTimers' = retryTimers \ {timer}
            /\ UNCHANGED << ws, encryptionKey, transports, lifecycle >>
       ELSE /\ Len(transports) < limit.transports
            /\ retryTimers' = retryTimers \ {timer}
            /\ ConnectBody(transports[timer.t].server, timer.kind)
    /\ disowned' = disowned \ {timer}
    /\ UNCHANGED << connected, serverName, dontAttemptToReconnect, hbVars >>
    /\ UNCHANGED << rpcVars, streamVars, sent, faults, limit, codec, xform, ignored, lastSearchRequestId >>

\* the failure result the client synthesises (relay.ts 208 and 260)
ConnectionLost(id) == [success |-> FALSE, error_code |-> "connection_lost", requestId |-> id]

\* clearTimeout(requestTimeout) in the pending callback (relay.ts 264)
ClearTimeout_Forgotten(armed, id) == armed
ClearTimeout(armed, id) == armed \ {id}

\* resolve({...data, requestId: currentRequestId}) in the pending callback (relay.ts 265)
Resolve_BodyWins(promise, id, data, by) ==
    [promise EXCEPT ![id] = Append(@,
        [how |-> "resolve", by |-> by, at |-> Len(frames),
         value |-> data @@ ("requestId" :> id)])]
Resolve(promise, id, data, by) ==
    [promise EXCEPT ![id] = Append(@,
        [how |-> "resolve", by |-> by, at |-> Len(frames),
         value |-> ("requestId" :> id) @@ data])]

\* reject(v) on the promise of call id
Reject(promise, id, v, by) ==
    [promise EXCEPT ![id] = Append(@,
        [how |-> "reject", by |-> by, at |-> Len(frames), value |-> v])]

\* The callers that continue with the relay once their rpc() promise resolved:
\* readFile (fileSystemProvider.ts 158-169) and search (searchProvider.ts).
Resumes(id) == rpcPromise[id] = << >> /\ rpcAction[id] \in {"FS.Read", "FS.Search"}

\* this.pending.clear() in the close handler (relay.ts 211)
PendingClear_Forgotten(p) == p
PendingClear(p) == {}

\* if (!this.dontAttemptToReconnect && fullyConnected) of the close handler
\* (relay.ts 218)
ShouldReconnect_Always(flag, fullyConnected) == ~flag
ShouldReconnect(flag, fullyConnected) == ~flag /\ fullyConnected

\* ws.on("close") of transport t (relay.ts 198-231)
OnClose(t) ==
    /\ transports[t].readyState \in {"OPEN", "CLOSING"}
    /\ ~transports[t].errorDue
    /\ connected' = FALSE
    /\ lifecycle' = "disconnected"
    \* if (this.heartbeat) clearInterval(this.heartbeat): the handle stored last
    /\ intervals' = intervals \ {heartbeat}
    \* for (const [requestId, cb] of this.pending) cb({..., requestId})
    /\ rpcPromise' = [id \in DOMAIN rpcPromise |->
            IF id \in pending
            THEN Resolve(rpcPromise, id, ConnectionLost(id), "close")[id]
            ELSE rpcPromise[id]]
    /\ timeouts' = {id \in timeouts : id \in ClearTimeout(timeouts, id) \/ id \notin pending}
    /\ microtasks' = microtasks \cup {id \in pending : Resumes(id)}
    /\ pending' = PendingClear(pending)
    /\ removed' = [id \in DOMAIN removed |->
            IF id \in pending /\ id \notin pending' THEN removed[id] + 1 ELSE removed[id]]
    /\ transports' = [transports EXCEPT
            ![t] = Settle(Emit([@ EXCEPT !.readyState = "CLOSED", !.receiving = FALSE],
                               "disconnected"),
                          "rejected")]
    /\ retryTimers' = IF ShouldReconnect(dontAttemptToReconnect, transports[t].fullyConnected)
                      THEN retryTimers \cup {NewTimer("reconnect", t)}
                      ELSE retryTimers
    /\ dontAttemptToReconnect' = FALSE
    /\ UNCHANGED << ws, serverName, encryptionKey, disowned, heartbeat, lastPong, wirePong >>
    /\ UNCHANGED << requestId, issued, rpcAction, rejected, streamVars, sent, faults, limit, codec, xform, ignored, lastSearchRequestId >>

\* ws.on("error") of transport t (relay.ts 233-238); ws closes the socket after it
OnError(t) ==
    /\ transports[t].readyState \in {"CONNECTING", "OPEN"} \/ transports[t].errorDue
    /\ transports' = [transports EXCEPT
            ![t] = Settle([@ EXCEPT !.readyState = "CLOSING", !.receiving = FALSE,
                                    !.errorDue = FALSE],
                          "rejected")]
    /\ UNCHANGED << ws, connected, serverName, encryptionKey, dontAttemptToReconnect,
                    retryTimers, disowned, lifecycle, hbVars >>
    /\ UNCHANGED << rpcVars, streamVars, sent, faults, limit, codec, xform, ignored, lastSearchRequestId >>

\* disconnect() (relay.ts 293-296); this.ws.close() throws a TypeError before any
\* connect(), aborts the handshake of a CONNECTING socket (error, then close),
\* starts the closing handshake of an OPEN one and does nothing otherwise
disconnect ==
    /\ dontAttemptToReconnect' = TRUE
    /\ transports' =
        IF ws = None THEN transports
        ELSE IF transports[ws].readyState = "CONNECTING"
        THEN [transports EXCEPT ![ws].readyState = "CLOSING", ![ws].errorDue = TRUE,
                                ![ws].closeCalled = "CONNECTING"]
        ELSE IF transports[ws].readyState = "OPEN"
        THEN [transports EXCEPT ![ws].readyState = "CLOSING", ![ws].closeCalled = "OPEN"]
        ELSE transports
    /\ disowned' = disowned \cup retryTimers
    /\ faults' = IF ws = None THEN faults \cup {[in |-> "disconnect", requestId |-> None]}
                 ELSE faults
    /\ UNCHANGED << ws, connected, serverName, encryptionKey, retryTimers, lifecycle,
                    hbVars >>
    /\ UNCHANGED << rpcVars, streamVars, sent, limit, codec, xform, ignored, lastSearchRequestId >>

\* requestId++ (relay.ts 255)
Increment_Forgotten(n) == n
Increment(n) == n + 1

\* rpc(action, payload) (relay.ts 250-275)
rpcBody(action, payload) ==
    /\ Len(issued) + rejected < limit.calls
    /\ IF ~connected
       THEN /\ rejected' = rejected + 1
            /\ UNCHANGED << requestId, pending, timeouts, issued, rpcPromise, rpcAction,
                            removed, sent >>
       ELSE LET currentRequestId == requestId IN
            /\ requestId' = Increment(requestId)
            /\ issued' = Append(issued, currentRequestId)
            /\ rpcAction' = (currentRequestId :> action) @@ rpcAction
            /\ removed' = (currentRequestId :> 0) @@ removed
            /\ timeouts' = timeouts \cup {currentRequestId}
            /\ pending' = pending \cup {currentRequestId}
            \* this.send() inside the executor: a throw rejects the promise
            /\ rpcPromise' = (currentRequestId :>
                    IF SendThrows
                    THEN << [how |-> "reject", by |-> "send", at |-> Len(frames),
                             value |-> [error |-> "not open"]] >>
                    ELSE << >>) @@ rpcPromise
            /\ sent' = IF SendThrows THEN sent
                       ELSE send([type |-> "client_rpc", requestId |-> currentRequestId])
            /\ UNCHANGED rejected

\* rpc(action, payload) called by a caller other than the search view
rpc(action, payload) ==
    /\ rpcBody(action, payload)
    /\ UNCHANGED << connVars, streamVars, microtasks, faults, limit, codec, xform, ignored,
                    lastSearchRequestId >>

requestTimeout_NoReject(id) ==
    /\ id \in timeouts
    /\ timeouts' = timeouts \ {id}
    /\ pending' = pending \ {id}
    /\ removed' = [removed EXCEPT ![id] = IF id \in pending THEN @ + 1 ELSE @]
    /\ UNCHANGED << requestId, issued, rpcPromise, rpcAction, rejected, microtasks >>
    /\ UNCHANGED << connVars, streamVars, sent, faults, limit, codec, xform, ignored, lastSearchRequestId >>

\* the requestTimeout callback of call id (relay.ts 258-261)
requestTimeout(id) ==
    /\ id \in timeouts
    /\ timeouts' = timeouts \ {id}
    /\ pending' = pending \ {id}
    /\ removed' = [removed EXCEPT ![id] = IF id \in pending THEN @ + 1 ELSE @]
    /\ rpcPromise' = Reject(rpcPromise, id, ConnectionLost(id), "timeout")
    /\ UNCHANGED << requestId, issued, rpcAction, rejected, microtasks >>
    /\ UNCHANGED << connVars, streamVars, sent, faults, limit, codec, xform, ignored, lastSearchRequestId >>

\* this.pending.get(msg.requestId) (relay.ts 187): the key whose callback is called
PendingGet_Oldest(id) ==
    IF pending = {} THEN None ELSE CHOOSE k \in pending : \A j \in pending : k <= j
PendingGet(id) == IF id \in pending THEN id ELSE None

\* The payloads a server_rpc_response carries: a response object encoded under
\* the key of one of the servers, or text that is not base64 of any JSON.
Garbage == << 1, 65, 2, 3 >>
Keys == { s.encryptionKey : s \in Servers } \cup {null}
WireResponses == { encode(o, k) : o \in ResponseObjects, k \in Keys } \cup {Garbage}

\* TLC evaluates an operator anew at each use, so decode() of every payload
\* under every key is computed once, in the initial state, and kept in codec.

\* a text frame {type: "server_rpc_response", requestId, response} (relay.ts 186-195)
OnServerRpcResponse(t, id, response) ==
    /\ Receiving(t)
    /\ LET cb == PendingGet(id)
           obj == codec.decoded[response, encryptionKey] IN
       IF cb = None
       THEN UNCHANGED << pending, timeouts, rpcPromise, removed, microtasks, faults >>
       ELSE IF obj.threw
       THEN \* JSON.parse throws out of the handler, before the delete
            /\ faults' = faults \cup {[in |-> "server_rpc_response", requestId |-> id]}
            /\ UNCHANGED << pending, timeouts, rpcPromise, removed, microtasks >>
       ELSE /\ UNCHANGED faults
            /\ pending' = pending \ {id}
            /\ removed' = [k \in DOMAIN removed |->
                    IF k = id /\ id \in pending THEN removed[k] + 1 ELSE removed[k]]
            /\ timeouts' = ClearTimeout(timeouts, cb)
            /\ rpcPromise' = Resolve(rpcPromise, cb, obj.value, "response")
            /\ microtasks' = IF Resumes(cb) THEN microtasks \cup {cb} ELSE microtasks
    /\ UNCHANGED << requestId, issued, rpcAction, rejected >>
    /\ UNCHANGED << connVars, streamVars, sent, limit, codec, xform, ignored, lastSearchRequestId >>

\* The request IDs a server may name: the allocated ones and one never issued.
ServerIds == 1..(limit.calls + 1)

\* ---------------------------------------------------------------- streams
\* pendingStreams.set(requestId, {onChunk, onEnd}) (relay.ts 277-279)
StreamsSet(streams, id, consumer) == (id :> consumer) @@ streams

\* pendingStreams.delete(requestId) (relay.ts 179 and 286)
StreamsDelete_Forgotten(streams, id) == streams
StreamsDelete(streams, id) == [k \in (DOMAIN streams) \ {id} |-> streams[k]]

\* pendingStreams.get(requestId) (relay.ts 114 and 175)
StreamsGet_Any(id) ==
    IF id \in DOMAIN pendingStreams THEN pendingStreams[id]
    ELSE IF DOMAIN pendingStreams = {} THEN None
    ELSE pendingStreams[CHOOSE k \in DOMAIN pendingStreams : TRUE]
StreamsGet(id) == IF id \in DOMAIN pendingStreams THEN pendingStreams[id] ELSE None

\* onChunk of streamFillBuffer: buffer.push(chunk) (relay.ts 282); the search
\* consumer hands each chunk on in the same way (searchProvider.ts)
onChunk_Unshift(chunks, chunk) == << chunk >> \o chunks
onChunk(chunks, chunk) == Append(chunks, chunk)

\* The continuation of `await this.relay.rpc(...)` in readFile
\* (fileSystemProvider.ts 162-169) and in search (searchProvider.ts): it runs as
\* a microtask of the resolved promise and registers the stream consumer.
\* ws emits the message events of frames that arrived together in one tick, so
\* later frames can be handled before this runs.
AwaitRpcContinues(id) ==
    /\ id \in microtasks
    /\ microtasks' = microtasks \ {id}
    /\ LET res == rpcPromise[id][1].value IN
       IF ~res.success
       THEN UNCHANGED << pendingStreams, consumers >>
       ELSE /\ consumers' = Append(consumers,
                    [requestId |-> res.requestId, chunks |-> << >>, ended |-> 0,
                     stopped |-> FALSE, returned |-> << >>])
            /\ pendingStreams' = StreamsSet(pendingStreams, res.requestId, Len(consumers) + 1)
    \* this.lastSearchRequestId = await this.searchProvider.search(...)
    \* (searchViewWebviewProvider.ts 222); search throws on a failure
    /\ lastSearchRequestId' =
            IF rpcAction[id] = "FS.Search" /\ rpcPromise[id][1].value.success
            THEN rpcPromise[id][1].value.requestId
            ELSE lastSearchRequestId
    /\ UNCHANGED << requestId, pending, timeouts, issued, rpcPromise, rpcAction, removed,
                    rejected, pendingBinaryChunk, frames, overwritten >>
    /\ UNCHANGED << connVars, sent, faults, limit, codec, xform, ignored >>

\* stopStream(requestId) (relay.ts 285-287)
stopStream(id) ==
    /\ pendingStreams' = StreamsDelete(pendingStreams, id)
    \* the consumer this call was made for
    /\ consumers' = IF StreamsGet(id) = None THEN consumers
                    ELSE [consumers EXCEPT ![StreamsGet(id)].stopped = TRUE]
    /\ UNCHANGED << pendingBinaryChunk, frames, overwritten >>
    /\ UNCHANGED << connVars, rpcVars, sent, faults, limit, codec, xform, ignored, lastSearchRequestId >>

\* this.pendingBinaryChunk = { requestId: msg.requestId } (relay.ts 169)
MarkerSet_FirstWins(marker, id) == IF marker = None THEN id ELSE marker
MarkerSet(marker, id) == id

\* a text frame {type: "server_rpc_stream_chunk", requestId} (relay.ts 168-172)
OnServerRpcStreamChunk(t, id) ==
    /\ Receiving(t)
    /\ pendingBinaryChunk' = MarkerSet(pendingBinaryChunk, id)
    /\ overwritten' = IF pendingBinaryChunk \notin {None, id} THEN pendingBinaryChunk
                      ELSE overwritten
    /\ UNCHANGED << pendingStreams, consumers, frames >>
    /\ UNCHANGED << connVars, rpcVars, sent, faults, limit, codec, xform, ignored, lastSearchRequestId >>

\* a text frame {type: "server_rpc_stream_stop", requestId} (relay.ts 174-184)
OnServerRpcStreamStop(t, id) ==
    /\ Receiving(t)
    /\ LET handler == StreamsGet(id) IN
       IF handler = None
       THEN UNCHANGED << pendingStreams, pendingBinaryChunk, consumers, overwritten >>
       ELSE /\ consumers' = [consumers EXCEPT ![handler].ended = @ + 1]
            /\ pendingStreams' = StreamsDelete(pendingStreams, id)
            /\ pendingBinaryChunk' = None
            /\ overwritten' = None
    /\ UNCHANGED frames
    /\ UNCHANGED << connVars, rpcVars, sent, faults, limit, codec, xform, ignored, lastSearchRequestId >>

\* const { requestId } = this.pendingBinaryChunk; this.pendingBinaryChunk = null
\* (relay.ts 111-112): what the marker holds once its frame has taken it
MarkerTake_Kept(marker) == marker
MarkerTake(marker) == None

\* a binary frame with bytes d on transport t (relay.ts 105-125)
OnBinaryMessage(t, d) ==
    /\ Receiving(t)
    /\ Len(frames) < limit.frames
    \* what arrived, and what the client held when it arrived
    /\ frames' = Append(frames,
            [marker |-> pendingBinaryChunk,
             consumer |-> IF pendingBinaryChunk = None THEN None
                          ELSE StreamsGet(pendingBinaryChunk),
             awaited |-> /\ pendingBinaryChunk \in microtasks
                         /\ rpcPromise[pendingBinaryChunk][1].value.success,
             overwrote |-> overwritten,
             chunk |-> decodeBinary(d, encryptionKey)])
    /\ overwritten' = None
    /\ IF pendingBinaryChunk = None
       THEN UNCHANGED << pendingBinaryChunk, consumers >>
       ELSE /\ pendingBinaryChunk' = MarkerTake(pendingBinaryChunk)
            /\ LET handler == StreamsGet(pendingBinaryChunk) IN
               IF handler = None
               THEN UNCHANGED consumers
               ELSE consumers' = [consumers EXCEPT ![handler].chunks =
                        onChunk(@, decodeBinary(d, encryptionKey))]
    /\ UNCHANGED pendingStreams
    /\ UNCHANGED << connVars, rpcVars, sent, faults, limit, codec, xform, ignored, lastSearchRequestId >>

ConnectionNext ==
    \/ \E s \in Servers : Connect(s)
    \/ \E t \in Transports : OnOpen(t)
    \/ \E t \in Transports : OnServerUpdate(t, "gmod")
    \/ \E t \in Transports : OnClientHelloFailure(t)
    \/ \E t \in Transports : OnClose(t)
    \/ \E t \in Transports : OnError(t)
    \/ \E timer \in retryTimers : RetryTimerFires(timer)
    \/ disconnect

RpcNext ==
    \/ \E a \in limit.actions : rpc(a, [path |-> "/x"])
    \/ \E id \in timeouts : requestTimeout(id)
    \/ \E t \in Transports, id \in ServerIds, r \in codec.responses :
            OnServerRpcResponse(t, id, r)

\* The bytes of the next binary frame: "A", then "B", ... as XORed by the server.
NextChunk == decodeBinary(<< 65 + Len(frames) >>, encryptionKey)

StreamNext ==
    \/ \E id \in microtasks : AwaitRpcContinues(id)
    \/ \E id \in ServerIds : stopStream(id)
    \/ \E t \in Transports, id \in ServerIds : OnServerRpcStreamChunk(t, id)
    \/ \E t \in Transports, id \in ServerIds : OnServerRpcStreamStop(t, id)
    \/ \E t \in Transports : OnBinaryMessage(t, NextChunk)

\* The server whose payloads are XORed, and the payloads it sends: a success, a
\* failure, a success encoded without the key, and text that is no payload.
KeyedServer == CHOOSE s \in Servers : ~NoKey(s.encryptionKey)
KeyedResponses ==
    { encode([success |-> TRUE, requestId |-> 9, size |-> 42], KeyedServer.encryptionKey),
      encode([success |-> FALSE, error_code |-> "file_not_found"], KeyedServer.encryptionKey),
      encode([success |-> TRUE], null),
      Garbage }

\* The relay with its RPC callers; no stream is registered.
Init ==
    /\ Constructed
    /\ xform = NoTransform
    /\ limit = [transports |-> RpcMaxTransports, calls |-> RpcMaxCalls,
                frames |-> 0,
                servers |-> {KeyedServer}, actions |-> {"FS.Stat"},
                overlap |-> FALSE]
    /\ codec = [responses |-> KeyedResponses,
                decoded |-> [r \in KeyedResponses, k \in Keys |-> decode(r, k)]]
Next == ConnectionNext \/ RpcNext
Spec == Init /\ [][Next]_vars

\* The payloads of the server of a stream: a success and a failure.
StreamResponses ==
    { encode([success |-> TRUE], KeyedServer.encryptionKey),
      encode([success |-> FALSE, error_code |-> "file_not_found"], KeyedServer.encryptionKey) }

\* A client whose first connect() has reached Ready: the transport is open
\* and the server_update has been handled.
ReadyOn(server) ==
    /\ ws = 1
    /\ requestId = 1
    /\ connected = TRUE
    /\ pending = {}
    /\ serverName = "gmod"
    /\ encryptionKey = server.encryptionKey
    /\ pendingStreams = << >>
    /\ dontAttemptToReconnect = FALSE
    /\ pendingBinaryChunk = None
    /\ transports = << [readyState |-> "OPEN", receiving |-> TRUE, errorDue |-> FALSE,
                        settled |-> TRUE, fullyConnected |-> TRUE, promise |-> "resolved",
                        server |-> server, helloFailures |-> 0,
                        settlements |-> 1, emitted |-> {"connecting", "connected"},
                        closeCalled |-> "no", by |-> "user"] >>
    /\ timeouts = {}
    /\ retryTimers = {}
    /\ microtasks = {}
    /\ consumers = << >>
    /\ issued = << >>
    /\ rpcPromise = << >>
    /\ rpcAction = << >>
    /\ removed = << >>
    /\ rejected = 0
    /\ sent = {[t |-> 1, type |-> "client_hello", requestId |-> None]}
    /\ frames = << >>
    /\ overwritten = None
    /\ disowned = {}
    /\ heartbeat = 1
    /\ intervals = {1}
    /\ lastPong = TRUE
    /\ wirePong = TRUE
    /\ lifecycle = "connecting"
    /\ ignored = << >>
    /\ lastSearchRequestId = None
    /\ faults = {}

\* The relay in Ready, with readFile as its caller and a server that streams;
\* the session may end (close, error, disconnect) but is not replaced.
StreamInit ==
    /\ ReadyOn(KeyedServer)
    /\ xform = NoTransform
    /\ limit = [transports |-> 1, calls |-> StreamMaxCalls, frames |-> StreamMaxFrames,
                servers |-> {KeyedServer}, actions |-> {"FS.Read"}, overlap |-> FALSE]
    /\ codec = [responses |-> StreamResponses,
                decoded |-> [r \in StreamResponses, k \in Keys |-> decode(r, k)]]
StreamSpecNext ==
    \/ \E t \in Transports : OnClose(t)
    \/ \E timer \in retryTimers : RetryTimerFires(timer)
    \/ disconnect
    \/ RpcNext
    \/ StreamNext
StreamSpec == StreamInit /\ [][StreamSpecNext]_vars

\* The RPC specification with the timers of the event loop: an armed
\* requestTimeout fires unless it is cleared first.
LiveSpec == Init /\ [][Next]_vars /\ \A id \in 1..RpcMaxCalls : WF_vars(requestTimeout(id))

\* The relay over two sessions: connect() may be called again at any time, and
\* the retry timers reconnect. The server answers with a success.
ReconnectResponses == { encode([success |-> TRUE], KeyedServer.encryptionKey) }
ReconnectInit ==
    /\ Constructed
    /\ xform = NoTransform
    /\ limit = [transports |-> ReconnectMaxTransports, calls |-> ReconnectMaxCalls,
                frames |-> 0,
                servers |-> {KeyedServer}, actions |-> {"FS.Stat"}, overlap |-> TRUE]
    /\ codec = [responses |-> ReconnectResponses,
                decoded |-> [r \in ReconnectResponses, k \in Keys |-> decode(r, k)]]
ReconnectSpec == ReconnectInit /\ [][Next]_vars

\* What a successful FS.Read response resolves call id with (relay.ts 265).
ReadResolved(id) ==
    << [how |-> "resolve", by |-> "response", at |-> 0,
        value |-> ("requestId" :> id) @@ [success |-> TRUE]] >>

\* A Ready client with two readFile calls under way: both FS.Read calls have
\* been answered with a success; the first caller has registered its stream, the
\* continuation of the second has not run yet.
TwoReads(server) ==
    /\ ws = 1
    /\ requestId = 3
    /\ connected = TRUE
    /\ pending = {}
    /\ serverName = "gmod"
    /\ encryptionKey = server.encryptionKey
    /\ pendingStreams = (1 :> 1)
    /\ dontAttemptToReconnect = FALSE
    /\ pendingBinaryChunk = None
    /\ transports = << [readyState |-> "OPEN", receiving |-> TRUE, errorDue |-> FALSE,
                        settled |-> TRUE, fullyConnected |-> TRUE, promise |-> "resolved",
                        server |-> server, helloFailures |-> 0,
                        settlements |-> 1, emitted |-> {"connecting", "connected"},
                        closeCalled |-> "no", by |-> "user"] >>
    /\ timeouts = {}
    /\ retryTimers = {}
    /\ microtasks = {2}
    /\ consumers = << [requestId |-> 1, chunks |-> << >>, ended |-> 0, stopped |-> FALSE,
                       returned |-> << >>] >>
    /\ issued = << 1, 2 >>
    /\ rpcPromise = (2 :> ReadResolved(2)) @@ (1 :> ReadResolved(1))
    /\ rpcAction = (2 :> "FS.Read") @@ (1 :> "FS.Read")
    /\ removed = (2 :> 1) @@ (1 :> 1)
    /\ rejected = 0
    /\ sent = { [t |-> 1, type |-> "client_hello", requestId |-> None],
                [t |-> 1, type |-> "client_rpc", requestId |-> 1],
                [t |-> 1, type |-> "client_rpc", requestId |-> 2] }
    /\ frames = << >>
    /\ overwritten = None
    /\ disowned = {}
    /\ heartbeat = 1
    /\ intervals = {1}
    /\ lastPong = TRUE
    /\ wirePong = TRUE
    /\ lifecycle = "connecting"
    /\ ignored = << >>
    /\ lastSearchRequestId = None
    /\ faults = {}

\* Two streams on one session: the server interleaves the notices, frames and
\* stops of the two reads; the callers may cancel; the session may end.
MuxInit ==
    /\ TwoReads(KeyedServer)
    /\ xform = NoTransform
    /\ limit = [transports |-> 1, calls |-> 2, frames |-> MuxMaxFrames,
                servers |-> {KeyedServer}, actions |-> {"FS.Read"}, overlap |-> FALSE]
    /\ codec = [responses |-> StreamResponses,
                decoded |-> [r \in StreamResponses, k \in Keys |-> decode(r, k)]]
MuxNext ==
    \/ \E t \in Transports : OnClose(t)
    \/ \E timer \in retryTimers : RetryTimerFires(timer)
    \/ disconnect
    \/ StreamNext
MuxSpec == MuxInit /\ [][MuxNext]_vars

\* The connection alone, to either server: connect() at any time, the handshake,
\* its failure, close, error, disconnect() and the retry timers; no rpc() call.
ConnectInit ==
    /\ Constructed
    /\ xform = NoTransform
    /\ limit = [transports |-> ConnectMaxTransports, calls |-> 0, frames |-> 0,
                servers |-> Servers, actions |-> {}, overlap |-> TRUE]
    /\ codec = [responses |-> {}, decoded |-> << >>]
ConnectSpec == ConnectInit /\ [][ConnectionNext]_vars

\* ------------------------------------------------------------------ claims
\* The calls made to resolve / reject of call id by the given paths.
SettledBy(id, paths) == {i \in DOMAIN rpcPromise[id] : rpcPromise[id][i].by \in paths}
RacePaths == {"response", "timeout", "close"}
Settled(id) == id \in DOMAIN rpcPromise /\ rpcPromise[id] # << >>

\* C1: for every rpc() call the response, the timeout and the close together
\* settle the promise at most once and remove the pending entry at most once;
\* once one of them has settled the call, its entry and its timer are gone, so
\* the later ones have no effect on it.
C1_SettledAtMostOnce ==
    \A id \in DOMAIN rpcPromise :
        /\ Cardinality(SettledBy(id, RacePaths)) <= 1
        /\ removed[id] <= 1
        /\ SettledBy(id, RacePaths) # {} => id \notin pending /\ id \notin timeouts

\* a call answered by the server whose transport closed afterwards, beside a
\* call that timed out
C1_Witness ==
    /\ \E id \in DOMAIN rpcPromise :
            /\ Len(rpcPromise[id]) = 1
            /\ rpcPromise[id][1].by = "response"
    /\ \E id \in DOMAIN rpcPromise :
            /\ Len(rpcPromise[id]) = 1
            /\ rpcPromise[id][1].by = "timeout"
    /\ \E t \in Transports : transports[t].readyState = "CLOSED"

\* C2: every accepted rpc() call eventually settles its promise and leaves the
\* pending map, the timeout timer being fair, also when the response cannot
\* be decoded.
C2_EveryCallSettles ==
    \A id \in 1..RpcMaxCalls : (id \in pending) ~> (id \notin pending /\ Settled(id))

\* a call whose response could not be decoded and which the timeout settled
C2_Witness ==
    \E id \in DOMAIN rpcPromise :
        /\ [in |-> "server_rpc_response", requestId |-> id] \in faults
        /\ Settled(id)
        /\ rpcPromise[id][1].by = "timeout"

\* C3: every request ID rpc() allocates is greater than every ID allocated
\* before it, across closes, disconnects and reconnects; the counter stays
\* above all of them.
C3_IdsStrictlyIncreasing ==
    \A i \in DOMAIN issued :
        /\ issued[i] < requestId
        /\ \A j \in 1..(i - 1) : issued[j] < issued[i]

\* two IDs allocated on two different transports
C3_Witness ==
    \E m1, m2 \in sent :
        /\ m1.type = "client_rpc" /\ m2.type = "client_rpc"
        /\ m1.t # m2.t
        /\ m1.requestId # m2.requestId

\* C4: when the timeout fires first, the caller's promise resolves with
\* {success: false, error_code: "connection_lost", requestId}, as a failure
\* reported by the server does, and the entry is removed.
C4_TimeoutResolvesWithFailure ==
    \A id \in DOMAIN rpcPromise :
        (Settled(id) /\ rpcPromise[id][1].by = "timeout") =>
            /\ rpcPromise[id][1].how = "resolve"
            /\ rpcPromise[id][1].value = ConnectionLost(id)
            /\ id \notin pending

\* C5: the step that handles the close of a transport resolves every pending
\* call with {success: false, error_code: "connection_lost"} and the call's own
\* ID, cancels its timeout and leaves the pending map empty.
C5_CloseResolvesAll ==
    [][\A t \in Transports :
        (transports[t].readyState # "CLOSED" /\ transports'[t].readyState = "CLOSED") =>
            /\ pending' = {}
            /\ \A id \in pending :
                /\ id \notin timeouts'
                /\ Len(rpcPromise'[id]) = Len(rpcPromise[id]) + 1
                /\ rpcPromise'[id][Len(rpcPromise'[id])].how = "resolve"
                /\ rpcPromise'[id][Len(rpcPromise'[id])].value = ConnectionLost(id)
      ]_vars

\* two calls in flight, both resolved by the close
C5_Witness ==
    \E id1, id2 \in DOMAIN rpcPromise :
        /\ id1 # id2
        /\ Settled(id1) /\ rpcPromise[id1][1].by = "close"
        /\ Settled(id2) /\ rpcPromise[id2][1].by = "close"
        /\ pending = {} /\ timeouts = {}

\* Ready: the current transport is open and its server_update has been handled.
Ready == ws # None /\ transports[ws].readyState = "OPEN" /\ transports[ws].fullyConnected

\* C6: rpc() called in a state other than Ready is rejected: it allocates no
\* ID, registers no pending entry and sends no client_rpc.
C6_RejectedUnlessReady ==
    [][~Ready => /\ issued' = issued
                 /\ pending' \subseteq pending
                 /\ {m \in sent' : m.type = "client_rpc"} = {m \in sent : m.type = "client_rpc"}
      ]_vars

\* C7: a server_rpc_response with request ID N settles no call but N's, and
\* one whose ID has no pending entry settles nothing and leaves the pending
\* map and the timers as they were.
C7_ResponseSettlesOnlyItsCall ==
    [][\A t \in Transports, id \in ServerIds, r \in codec.responses :
        OnServerRpcResponse(t, id, r) =>
            /\ \A k \in DOMAIN rpcPromise : k # id => rpcPromise'[k] = rpcPromise[k]
            /\ \A k \in pending : k # id => k \in pending' /\ (k \in timeouts <=> k \in timeouts')
            /\ id \notin pending =>
                    (pending' = pending /\ rpcPromise' = rpcPromise /\ timeouts' = timeouts)
      ]_vars

\* the second call answered while the first is still pending
C7_Witness ==
    /\ Len(issued) = 2
    /\ issued[1] \in pending
    /\ Settled(issued[2]) /\ rpcPromise[issued[2]][1].by = "response"

\* C8: a binary frame that arrives for a stream-initiating call whose response
\* has been handled, and whose caller registers on receiving it, is delivered
\* to that caller's consumer: none is dropped for arriving before the
\* registration took effect.
C8_NoFrameBeforeRegistration ==
    \A i \in DOMAIN frames : frames[i].awaited => frames[i].consumer # None

\* The chunks of the binary frames that were routed to consumer c, in arrival order.
RECURSIVE RoutedTo(_, _)
RoutedTo(c, n) ==
    IF n = 0 THEN << >>
    ELSE IF frames[n].consumer = c
         THEN Append(RoutedTo(c, n - 1), frames[n].chunk)
         ELSE RoutedTo(c, n - 1)

\* C9: the chunks passed to the onChunk callback of a registered stream are
\* exactly the binary frames routed to it, in arrival order, one chunk per
\* frame.
C9_ChunksInArrivalOrder ==
    \A c \in DOMAIN consumers : consumers[c].chunks = RoutedTo(c, Len(frames))

\* a consumer that has received two different frames
C9_Witness ==
    \E c \in DOMAIN consumers :
        /\ Len(consumers[c].chunks) = 2
        /\ consumers[c].chunks[1] # consumers[c].chunks[2]

\* C10: once stopStream(N) has been called or a server_rpc_stream_stop for N
\* has been handled, no step delivers a chunk to the consumer that was
\* registered for N.
C10_NoChunkAfterStop ==
    [][\A c \in DOMAIN consumers :
        (consumers[c].stopped \/ consumers[c].ended > 0) =>
            consumers'[c].chunks = consumers[c].chunks]_vars

\* a consumer that received a frame, was stopped, and whose next frame was
\* dropped
C10_Witness ==
    \E c \in DOMAIN consumers : \E i, j \in DOMAIN frames :
        /\ consumers[c].stopped \/ consumers[c].ended > 0
        /\ i < j
        /\ frames[i].consumer = c
        /\ frames[j].marker = consumers[c].requestId
        /\ frames[j].consumer = None

\* C11: the end callback of a registered stream is invoked at most once, only
\* by a server_rpc_stream_stop for its ID and never after stopStream, and
\* the step that invokes it removes the entry.
C11_EndAtMostOnce ==
    [][\A c \in DOMAIN consumers :
        consumers'[c].ended # consumers[c].ended =>
            /\ consumers[c].ended = 0
            /\ consumers'[c].ended = 1
            /\ ~consumers[c].stopped
            /\ \E t \in Transports : OnServerRpcStreamStop(t, consumers[c].requestId)
            /\ consumers[c].requestId \notin DOMAIN pendingStreams'
      ]_vars

\* a stream that received a chunk and was ended, beside one that was cancelled
C11_Witness ==
    \E c, d \in DOMAIN consumers :
        /\ consumers[c].ended = 1
        /\ consumers[c].chunks # << >>
        /\ consumers[c].requestId \notin DOMAIN pendingStreams
        /\ consumers[d].stopped

\* C12: a binary frame that finds no marker, or a marker whose ID has no
\* registered consumer, is dropped: no consumer is invoked, nothing is thrown,
\* the transport stays as it is, and the registered streams and the pending
\* RPCs are unchanged.
C12_UnroutedFrameDropped ==
    [][(/\ Len(frames') > Len(frames)
        /\ \/ pendingBinaryChunk = None
           \/ pendingBinaryChunk \notin DOMAIN pendingStreams) =>
            /\ consumers' = consumers
            /\ pendingStreams' = pendingStreams
            /\ faults' = faults
            /\ transports' = transports
            /\ connected' = connected
            /\ rpcVars' = rpcVars
      ]_vars

\* one frame without a marker and one for an unregistered ID were dropped while
\* the first stream stayed registered on an open transport
C12_Witness ==
    /\ \E i \in DOMAIN frames : frames[i].marker = None
    /\ \E i \in DOMAIN frames : frames[i].marker # None /\ frames[i].consumer = None
    /\ 1 \in DOMAIN pendingStreams
    /\ consumers[pendingStreams[1]].chunks = << >>
    /\ transports[1].readyState = "OPEN"
    /\ faults = {}

\* C13: a server_rpc_stream_stop for ID N leaves a marker that references
\* another ID M as it is.
C13_StopClearsOnlyItsMarker ==
    [][\A t \in Transports, id \in ServerIds :
        (OnServerRpcStreamStop(t, id) /\ pendingBinaryChunk \notin {None, id}) =>
            pendingBinaryChunk' = pendingBinaryChunk
      ]_vars

\* C14: a binary frame always leaves the marker empty, and one that finds the
\* marker empty is routed to no consumer.
C14_MarkerConsumedByOneFrame ==
    [][Len(frames') > Len(frames) =>
            /\ pendingBinaryChunk' = None
            /\ pendingBinaryChunk = None => consumers' = consumers
      ]_vars

\* a frame was delivered and the next one came without a new notice
C14_Witness ==
    \E i \in DOMAIN frames :
        /\ i + 1 \in DOMAIN frames
        /\ frames[i].consumer # None
        /\ frames[i + 1].marker = None
        /\ frames[i + 1].consumer = None

\* C15: a chunk notice for B sets the marker to B whatever it held, without a
\* throw and without touching the transport; the next binary frame goes to the
\* consumer registered for the marker's ID and to no other.
C15_LastMarkerWins ==
    [][/\ \A t \in Transports, id \in ServerIds :
            OnServerRpcStreamChunk(t, id) =>
                /\ pendingBinaryChunk' = id
                /\ faults' = faults
                /\ transports' = transports
       /\ Len(frames') > Len(frames) =>
            \A c \in DOMAIN consumers :
                consumers'[c].chunks # consumers[c].chunks =>
                    consumers[c].requestId = pendingBinaryChunk
      ]_vars

\* the notice for B replaced the marker of A, both registered, and the frame
\* went to B's consumer while A's received nothing
C15_Witness ==
    \E i \in DOMAIN frames : \E a, b \in DOMAIN consumers :
        /\ frames[i].overwrote = consumers[a].requestId
        /\ frames[i].consumer = b
        /\ frames[i].marker = consumers[b].requestId
        /\ a # b
        /\ consumers[a].chunks = << >>
        /\ consumers[a].requestId \in DOMAIN pendingStreams

\* C16: the promise of each connect() call is settled at most once: of
\* server_update, close and error on its transport only the first makes a call
\* to resolve or reject, and a resolved promise had its server_update.
C16_ConnectSettlesOnce ==
    \A t \in Transports :
        /\ transports[t].settlements <= 1
        /\ transports[t].settlements = 1 <=> transports[t].promise # "pending"
        /\ transports[t].promise = "resolved" => transports[t].fullyConnected
        /\ transports[t].promise = "rejected" =>
                transports[t].readyState \in {"CLOSING", "CLOSED"}

\* one connect() resolved and its transport closed later; another connect()
\* rejected
C16_Witness ==
    \E t1, t2 \in Transports :
        /\ transports[t1].promise = "resolved"
        /\ transports[t1].readyState = "CLOSED"
        /\ transports[t2].promise = "rejected"
        /\ transports[t2].readyState = "CLOSED"

\* C17: a connect() promise is resolved only when a server_update was handled
\* on its transport, with the server name recorded and "connected" emitted; an
\* open transport without server_update leaves it pending; a rejected promise
\* has no "connected" event on its transport.
C17_ResolvesOnServerUpdate ==
    \A t \in Transports :
        /\ transports[t].promise = "resolved" =>
                /\ transports[t].fullyConnected
                /\ "connected" \in transports[t].emitted
                /\ serverName = "gmod"
        /\ (transports[t].readyState = "OPEN" /\ ~transports[t].fullyConnected) =>
                transports[t].promise = "pending"
        /\ transports[t].promise = "rejected" => "connected" \notin transports[t].emitted

\* one transport opened and closed before any server_update, the next one
\* resolved on its server_update
C17_Witness ==
    \E t1, t2 \in Transports :
        /\ transports[t1].promise = "rejected"
        /\ "disconnected" \in transports[t1].emitted
        /\ transports[t2].promise = "resolved"
        /\ transports[t2].readyState = "OPEN"

\* C18: the close of a transport that had reached Ready, when disconnect() did
\* not close it, schedules exactly one reconnect timer; when a retry timer
\* calls connect(), it is with the server of the closed session.
C18_ReconnectAfterLoss ==
    [][/\ \A t \in Transports :
            (/\ transports[t].readyState # "CLOSED"
             /\ transports'[t].readyState = "CLOSED"
             /\ transports[t].fullyConnected
             /\ transports[t].closeCalled = "no") =>
                \E timer \in retryTimers' \ retryTimers :
                    /\ timer.kind = "reconnect"
                    /\ timer.t = t
                    /\ retryTimers' = retryTimers \cup {timer}
       /\ \A timer \in retryTimers :
            (RetryTimerFires(timer) /\ Len(transports') > Len(transports)) =>
                transports'[Len(transports')].server = transports[timer.t].server
      ]_vars

\* C19: while the current transport is one that disconnect() closed when it was
\* open, its close schedules no reconnect and leaves the suppress flag false,
\* and no connect() is made by a timer of the client.
C19_NoReconnectAfterDisconnect ==
    [][(ws # None /\ transports[ws].closeCalled = "OPEN") =>
            /\ (/\ transports[ws].readyState # "CLOSED"
                /\ transports'[ws].readyState = "CLOSED") =>
                    /\ retryTimers' = retryTimers
                    /\ dontAttemptToReconnect' = FALSE
            /\ Len(transports') > Len(transports) => retryTimers' = retryTimers
      ]_vars

\* C20: when the retry timer of a client_hello_failure fires, disconnect() not
\* having been called since and no connection having succeeded, it calls
\* connect() with the server of the failed attempt.
C20_HelloFailureRetried ==
    [][\A timer \in retryTimers :
        (/\ timer.kind = "hello"
         /\ timer \notin disowned
         /\ \A t \in Transports : ~transports[t].fullyConnected
         /\ RetryTimerFires(timer)) =>
            /\ Len(transports') = Len(transports) + 1
            /\ transports'[Len(transports')].server = transports[timer.t].server
      ]_vars

\* C21: a client_hello_failure retry timer that was pending when disconnect()
\* was called makes no connect() when it fires, no connect() having been made
\* since, whether or not the close of the transport was handled first.
C21_DisconnectCancelsHelloRetry ==
    [][\A timer \in retryTimers :
        (/\ timer.kind = "hello"
         /\ timer \in disowned
         /\ timer.t = Len(transports)
         /\ RetryTimerFires(timer)) =>
            Len(transports') = Len(transports)
      ]_vars

\* the connection life cycle of one server across three transports, the user
\* calling connect() only when no earlier transport is alive
SerialMaxTransports == 3
SerialInit ==
    /\ Constructed
    /\ xform = NoTransform
    /\ limit = [transports |-> SerialMaxTransports, calls |-> 0, frames |-> 0,
                servers |-> {KeyedServer}, actions |-> {}, overlap |-> FALSE]
    /\ codec = [responses |-> {}, decoded |-> << >>]
SerialSpec == SerialInit /\ [][ConnectionNext]_vars

\* C22: a retry timer (hello retry or automatic reconnect) starts a new
\* transport only when no other transport is connecting or open.
C22_OneAttemptInFlight ==
    [][\A timer \in retryTimers :
        (RetryTimerFires(timer) /\ Len(transports') > Len(transports)) =>
            \A t \in Transports : transports[t].readyState \notin {"CONNECTING", "OPEN"}
      ]_vars

\* C23: a disconnect() call on a transport that disconnect() already closed,
\* its close event handled in between or not, changes nothing: the transport,
\* the retry timers and the suppress flag keep their values.
C23_DisconnectIdempotent ==
    [][(/\ ws # None
        /\ transports[ws].closeCalled # "no"
        /\ disconnect) =>
            /\ dontAttemptToReconnect' = dontAttemptToReconnect
            /\ transports' = transports
            /\ retryTimers' = retryTimers
      ]_vars

\* The keys a server entry can carry: none, "", "k", "ke" and the two-byte "é".
CodecKeys == { null, << >>, << 107 >>, << 107, 101 >>, << 195, 169 >> }

\* a payload x about to be sent under the key k
CodecInit ==
    /\ Constructed
    /\ xform \in { [stage |-> "input", x |-> x, k |-> k] : x \in JsonObjects, k \in CodecKeys }
    /\ limit = [transports |-> 0, calls |-> 0, frames |-> 0,
                servers |-> {}, actions |-> {}, overlap |-> FALSE]
    /\ codec = [responses |-> {}, decoded |-> << >>]

\* the sender calls encode(x, k) (relay.ts 8-17)
Encode ==
    /\ xform.stage = "input"
    /\ xform' = [stage |-> "encoded", x |-> xform.x, k |-> xform.k,
                 wire |-> encode(xform.x, xform.k)]
    /\ UNCHANGED << connVars, rpcVars, streamVars, sent, faults, limit, codec, ignored, lastSearchRequestId >>

\* the receiver calls decode(wire, key, false) (relay.ts 19-34); a thrown
\* SyntaxError is recorded as the outcome
Decode(key) ==
    /\ xform.stage = "encoded"
    /\ xform' = [stage |-> "decoded", x |-> xform.x, k |-> xform.k, wire |-> xform.wire,
                 key |-> key, out |-> decode(xform.wire, key)]
    /\ UNCHANGED << connVars, rpcVars, streamVars, sent, faults, limit, codec, ignored, lastSearchRequestId >>

CodecNext ==
    \/ Encode
    \/ \E key \in CodecKeys : Decode(key)
CodecSpec == CodecInit /\ [][CodecNext]_vars

C25_UndecodableResponseDropped ==
    \A f \in faults : f.in # "server_rpc_response"

\* ------------------------------------------------------------- heartbeat
\* Date.now() - this.lastPong > 30000 (relay.ts 89); lastPong is kept as
\* "a pong was recorded within the last 30 s"
PongOverdue == ~lastPong

\* this.ws.terminate() (relay.ts 91): aborts the handshake of a CONNECTING socket
\* (error, then close), destroys the socket of an OPEN or CLOSING one (nothing
\* more is received, close follows), does nothing on a CLOSED one
terminate(tr) ==
    IF tr.readyState = "CONNECTING"
    THEN [tr EXCEPT !.readyState = "CLOSING", !.errorDue = TRUE]
    ELSE IF tr.readyState \in {"OPEN", "CLOSING"}
    THEN [tr EXCEPT !.readyState = "CLOSING", !.receiving = FALSE]
    ELSE tr

\* try { this.ws.ping(); } catch { } (relay.ts 93)
WsPing == IF transports[ws].readyState = "OPEN"
          THEN {[t |-> ws, type |-> "ws.ping", requestId |-> None]}
          ELSE {}

\* one run of the setInterval callback that the open handler of transport h
\* started (relay.ts 88-97); it acts on this.ws
HeartbeatTick(h) ==
    /\ h \in intervals
    /\ IF PongOverdue
       THEN /\ transports' = [transports EXCEPT ![ws] = terminate(@)]
            /\ UNCHANGED << sent, faults >>
       ELSE /\ sent' = WsPing \cup send([type |-> "ping", requestId |-> None])
            /\ faults' = IF SendThrows
                         THEN faults \cup {[in |-> "heartbeat", requestId |-> None]}
                         ELSE faults
            /\ UNCHANGED transports
    /\ UNCHANGED << ws, connected, serverName, encryptionKey, dontAttemptToReconnect,
                    retryTimers, disowned, lifecycle, hbVars >>
    /\ UNCHANGED << rpcVars, streamVars, limit, codec, xform, ignored, lastSearchRequestId >>

\* ws.on("pong") of transport t (relay.ts 100-102)
OnPong(t) ==
    /\ Receiving(t)
    /\ lastPong' = TRUE
    /\ wirePong' = TRUE
    /\ UNCHANGED << ws, connected, serverName, encryptionKey, dontAttemptToReconnect,
                    transports, retryTimers, disowned, lifecycle, heartbeat, intervals >>
    /\ UNCHANGED << rpcVars, streamVars, sent, faults, limit, codec, xform, ignored, lastSearchRequestId >>

\* a text frame {type: "pong"} on transport t (relay.ts 133-136)
OnPongMessage(t) ==
    /\ Receiving(t)
    /\ lastPong' = TRUE
    /\ UNCHANGED << ws, connected, serverName, encryptionKey, dontAttemptToReconnect,
                    transports, retryTimers, disowned, lifecycle, heartbeat, intervals,
                    wirePong >>
    /\ UNCHANGED << rpcVars, streamVars, sent, faults, limit, codec, xform, ignored, lastSearchRequestId >>

\* 30 s pass in which neither kind of pong arrives
WindowElapses ==
    /\ lastPong \/ wirePong
    /\ lastPong' = FALSE
    /\ wirePong' = FALSE
    /\ UNCHANGED << ws, connected, serverName, encryptionKey, dontAttemptToReconnect,
                    transports, retryTimers, disowned, lifecycle, heartbeat, intervals >>
    /\ UNCHANGED << rpcVars, streamVars, sent, faults, limit, codec, xform, ignored, lastSearchRequestId >>

HeartbeatMaxTransports == 2
HeartbeatInit ==
    /\ Constructed
    /\ xform = NoTransform
    /\ limit = [transports |-> HeartbeatMaxTransports, calls |-> 0, frames |-> 0,
                servers |-> {KeyedServer}, actions |-> {}, overlap |-> TRUE]
    /\ codec = [responses |-> {}, decoded |-> << >>]
HeartbeatNext ==
    \/ ConnectionNext
    \/ \E h \in intervals : HeartbeatTick(h)
    \/ \E t \in Transports : OnPong(t)
    \/ \E t \in Transports : OnPongMessage(t)
    \/ WindowElapses
HeartbeatSpec == HeartbeatInit /\ [][HeartbeatNext]_vars

\* C26: a heartbeat tick of an open transport terminates that transport and
\* sends nothing when no transport-level pong was observed within the window,
\* whatever application-level pong messages arrived; otherwise it sends a
\* transport-level ping and an application-level ping on that transport.
C26_HeartbeatTick ==
    [][\A h \in intervals :
        (transports[h].readyState = "OPEN" /\ HeartbeatTick(h)) =>
            IF ~wirePong
            THEN /\ transports'[h].readyState = "CLOSING"
                 /\ sent' = sent
            ELSE /\ [t |-> h, type |-> "ws.ping", requestId |-> None] \in sent'
                 /\ [t |-> h, type |-> "ping", requestId |-> None] \in sent'
      ]_vars

\* C27: a "connected" event is emitted only when the last lifecycle event
\* before it was "connecting": no "disconnected" lies between the two.
C27_ConnectedFollowsConnecting ==
    [][\A t \in Transports :
        (OnServerUpdate(t, "gmod") /\ transports'[t] # transports[t]) =>
            lifecycle = "connecting"
      ]_vars

\* Streams across a reconnect: the session of TwoReads may be lost, the
\* reconnect timer opens a second transport, and the server goes on streaming
\* on whichever transport is open.
ResumeMaxFrames == 1
ResumeInit ==
    /\ TwoReads(KeyedServer)
    /\ xform = NoTransform
    /\ limit = [transports |-> 2, calls |-> 2, frames |-> ResumeMaxFrames,
                servers |-> {KeyedServer}, actions |-> {"FS.Read"}, overlap |-> FALSE]
    /\ codec = [responses |-> StreamResponses,
                decoded |-> [r \in StreamResponses, k \in Keys |-> decode(r, k)]]
ResumeNext ==
    \/ MuxNext
    \/ \E t \in Transports : OnOpen(t)
    \/ \E t \in Transports : OnServerUpdate(t, "gmod")
ResumeSpec == ResumeInit /\ [][ResumeNext]_vars

\* C28: the consumer of the first read, registered before any transport
\* closed, is handed no chunk once a transport has closed, also not by a
\* transport opened later.
C28_NoChunkAfterClose ==
    [][(\E t \in Transports : transports[t].readyState = "CLOSED") =>
            consumers'[1].chunks = consumers[1].chunks
      ]_vars

\* C29: at most one heartbeat timer is running, and none that was started for
\* a transport whose close has been handled.
C29_OneHeartbeatTimer ==
    /\ Cardinality(intervals) <= 1
    /\ \A t \in Transports : transports[t].readyState = "CLOSED" => t \notin intervals

C31_ResponseAnnotatedWithId ==
    [][\A t \in Transports, id \in ServerIds, r \in codec.responses :
        (/\ OnServerRpcResponse(t, id, r)
         /\ id \in pending
         /\ rpcPromise[id] = << >>
         /\ ~codec.decoded[r, encryptionKey].threw) =>
            LET obj == codec.decoded[r, encryptionKey].value
                got == rpcPromise'[id][1]
            IN  /\ got.how = "resolve"
                /\ DOMAIN got.value = DOMAIN obj \cup {"requestId"}
                /\ got.value.requestId = id
                /\ \A f \in DOMAIN obj \ {"requestId"} : got.value[f] = obj[f]
      ]_vars
C31_Witness ==
    \E id \in DOMAIN rpcPromise :
        /\ rpcPromise[id] # << >>
        /\ rpcPromise[id][1].by = "response"
        /\ "size" \in DOMAIN rpcPromise[id][1].value
        /\ rpcPromise[id][1].value.size = 42
        /\ rpcPromise[id][1].value.requestId = id

\* ------------------------------------------------------------- readFile
\* Buffer.concat(fileChunks) (fileSystemProvider.ts readFile)
BufferConcat_Last(chunks) == IF chunks = << >> THEN << >> ELSE chunks[Len(chunks)]
RECURSIVE BufferConcat(_)
BufferConcat(chunks) ==
    IF chunks = << >> THEN << >> ELSE Head(chunks) \o BufferConcat(Tail(chunks))

\* readFile resumes after `await this.relay.streamFillBuffer(requestId, fileChunks)`
\* and returns; returned holds the value, once there is one
ReadFileReturns(c) ==
    /\ c \in DOMAIN consumers
    /\ consumers[c].ended > 0
    /\ consumers[c].returned = << >>
    /\ consumers' = [consumers EXCEPT ![c].returned = << BufferConcat(consumers[c].chunks) >>]
    /\ UNCHANGED << pendingStreams, pendingBinaryChunk, frames, overwritten >>
    /\ UNCHANGED << connVars, rpcVars, sent, faults, limit, codec, xform, ignored, lastSearchRequestId >>

\* readFile as the caller of the relay: FS.Read, the stream of the file, the
\* return of the file's bytes
FillMaxCalls == 1
FillMaxFrames == 2
FillInit ==
    /\ ReadyOn(KeyedServer)
    /\ xform = NoTransform
    /\ limit = [transports |-> 1, calls |-> FillMaxCalls, frames |-> FillMaxFrames,
                servers |-> {KeyedServer}, actions |-> {"FS.Read"}, overlap |-> FALSE]
    /\ codec = [responses |-> StreamResponses,
                decoded |-> [r \in StreamResponses, k \in Keys |-> decode(r, k)]]
FillNext ==
    \/ StreamSpecNext
    \/ \E c \in DOMAIN consumers : ReadFileReturns(c)
FillSpec == FillInit /\ [][FillNext]_vars

\* the bytes of the first n chunks, one after the other
RECURSIVE FirstBytes(_, _)
FirstBytes(chunks, n) == IF n = 0 THEN << >> ELSE FirstBytes(chunks, n - 1) \o chunks[n]

\* C32: from its registration on, the buffer of streamFillBuffer(N, buffer)
\* grows only by the chunk of a binary frame routed to N, appended at the end;
\* its promise resolves in exactly the steps that handle a
\* server_rpc_stream_stop for N while N is registered; and readFile returns,
\* after that, the concatenation of the buffer in order, the buffer being
\* final by then.
C32_FillBufferAndReturn ==
    [][\A c \in DOMAIN consumers :
        LET N == consumers[c].requestId
            routed == /\ Len(frames') = Len(frames) + 1
                      /\ pendingBinaryChunk = N
                      /\ StreamsGet(N) = c
            stops == /\ StreamsGet(N) = c
                     /\ \E t \in Transports : OnServerRpcStreamStop(t, N)
        IN  /\ consumers'[c].chunks =
                    IF routed THEN Append(consumers[c].chunks, frames'[Len(frames')].chunk)
                    ELSE consumers[c].chunks
            /\ stops <=> consumers'[c].ended = consumers[c].ended + 1
            /\ consumers'[c].ended \in {consumers[c].ended, consumers[c].ended + 1}
            /\ consumers'[c].returned # consumers[c].returned =>
                    /\ consumers[c].ended = 1
                    /\ consumers'[c].returned =
                            << FirstBytes(consumers[c].chunks, Len(consumers[c].chunks)) >>
            /\ consumers[c].returned # << >> => consumers'[c] = consumers[c]
      ]_vars
C32_Witness ==
    \E c \in DOMAIN consumers :
        /\ Len(consumers[c].chunks) = 2
        /\ consumers[c].chunks[1] # consumers[c].chunks[2]
        /\ consumers[c].returned = << consumers[c].chunks[1] \o consumers[c].chunks[2] >>

\* ----------------------------------------------------- other text frames
\* JS null as a parsed JSON value
JsNull == [js |-> "null"]

\* The envelopes no branch of the message handler is written for
\* (types.ts 81-85 and a type the protocol does not have).
EnvelopeObjects ==
    { [type |-> "bogus"], [type |-> "server_rpc_stream_start", requestId |-> 1] }

\* Text frames: those envelopes, the JSON text null, and two texts that are
\* not JSON (a lone brace and a truncated envelope).
OtherTexts ==
    { JSONstringify(o) : o \in EnvelopeObjects }
    \cup { Utf8("null"), Utf8("{"), SubSeq(JSONstringify([type |-> "bogus"]), 1, 9) }

\* JSON.parse of a text frame
JSONparseText(text) ==
    IF \E o \in EnvelopeObjects : JSONstringify(o) = text
    THEN [threw |-> FALSE, value |-> CHOOSE o \in EnvelopeObjects : JSONstringify(o) = text]
    ELSE IF text = Utf8("null") THEN [threw |-> FALSE, value |-> JsNull]
    ELSE [threw |-> TRUE, value |-> JsNull]

\* parseMessage (relay.ts 36-42): try { return JSON.parse(data) } catch { return null }
parseMessage_NoCatch(data) == JSONparseText(data)
parseMessage(data) ==
    IF JSONparseText(data).threw THEN [threw |-> FALSE, value |-> JsNull]
    ELSE JSONparseText(data)

\* The types the text message handler has a branch for (relay.ts 133-195).
HandledTypes ==
    { "pong", "client_hello_failure", "server_update", "server_rpc_stream_chunk",
      "server_rpc_stream_stop", "server_rpc_response" }

\* a text frame d on transport t that none of the branches takes (relay.ts 127-196)
OnTextMessage(t, d) ==
    /\ Receiving(t)
    /\ d \in codec.texts
    \* let msg = parseMessage(d.toString())
    /\ LET msg == codec.parsed[d] IN
       IF msg.threw
       THEN /\ faults' = faults \cup {[in |-> "message", requestId |-> None]}
            /\ UNCHANGED ignored
       ELSE \* if (!msg) return; otherwise every `if (msg.type === ...)` is false
            /\ IF msg.value = JsNull THEN TRUE ELSE msg.value.type \notin HandledTypes
            /\ ignored' = d
            /\ UNCHANGED faults
    /\ UNCHANGED << connVars, rpcVars, streamVars, sent, limit, codec, xform,
                    lastSearchRequestId >>

\* readFile on a server that also sends text frames the client has no branch
\* for, at any point of the call and of its stream.
TextMaxCalls == 1
TextMaxFrames == 1
TextInit ==
    /\ ReadyOn(KeyedServer)
    /\ xform = NoTransform
    /\ limit = [transports |-> 1, calls |-> TextMaxCalls, frames |-> TextMaxFrames,
                servers |-> {KeyedServer}, actions |-> {"FS.Read"}, overlap |-> FALSE]
    /\ codec = [responses |-> StreamResponses,
                decoded |-> [r \in StreamResponses, k \in Keys |-> decode(r, k)],
                texts |-> OtherTexts,
                parsed |-> [d \in OtherTexts |-> parseMessage(d)]]
TextNext ==
    \/ StreamSpecNext
    \/ \E t \in Transports, d \in codec.texts : OnTextMessage(t, d)
TextSpec == TextInit /\ [][TextNext]_vars

\* C33: a text frame that is not JSON, is the JSON null, carries an unknown
\* type or is a server_rpc_stream_start changes nothing of the client: the
\* pending RPCs and their promises, the registered streams and their consumers,
\* the marker, the connection flag, the server name and the transport stay as
\* they are, nothing is sent and nothing is thrown.
C33_OtherTextIgnored ==
    [][\A t \in Transports, d \in codec.texts :
        OnTextMessage(t, d) =>
            /\ UNCHANGED << connVars, rpcVars, streamVars, sent, faults >>
      ]_vars
C33_Witness ==
    /\ 1 \in DOMAIN pendingStreams
    /\ pendingBinaryChunk = 1
    /\ connected
    /\ ignored # << >>
    /\ ignored = JSONstringify([type |-> "server_rpc_stream_start", requestId |-> 1])

\* Everything that writes to a socket: the open handler, rpc() and the
\* heartbeat, over two transports that may overlap.
HelloMaxTransports == 2
HelloMaxCalls == 1
HelloInit ==
    /\ Constructed
    /\ xform = NoTransform
    /\ limit = [transports |-> HelloMaxTransports, calls |-> HelloMaxCalls, frames |-> 0,
                servers |-> {KeyedServer}, actions |-> {"FS.Stat"}, overlap |-> TRUE]
    /\ codec = [responses |-> {}, decoded |-> << >>]
HelloNext ==
    \/ ConnectionNext
    \/ \E a \in limit.actions : rpc(a, [path |-> "/x"])
    \/ \E id \in timeouts : requestTimeout(id)
    \/ \E h \in intervals : HeartbeatTick(h)
HelloSpec == HelloInit /\ [][HelloNext]_vars

\* C34: whatever is written to a transport is written while it is open, and a
\* client_rpc, a ping or a transport-level ping is written to a transport
\* only after a client_hello was written to that transport.
C34_HelloFirst ==
    [][\A m \in sent' \ sent :
        /\ transports'[m.t].readyState = "OPEN"
        /\ m.type # "client_hello" =>
                [t |-> m.t, type |-> "client_hello", requestId |-> None] \in sent
      ]_vars
C34_Witness ==
    /\ Len(transports) = 2
    /\ \A t \in Transports :
        /\ [t |-> t, type |-> "client_hello", requestId |-> None] \in sent
        /\ [t |-> t, type |-> "ping", requestId |-> None] \in sent
    /\ \E m \in sent : m.type = "client_rpc"

\* C35: once the transport has closed, no stream is left registered with its
\* end callback never invoked: the close ends or removes every stream, so
\* that readFile does not wait on.
C35_StreamsEndOnClose ==
    (\A t \in Transports : transports[t].readyState = "CLOSED") =>
        \A c \in DOMAIN consumers :
            \/ consumers[c].ended > 0
            \/ StreamsGet(consumers[c].requestId) # c

\* C36: the marker is empty whenever a transport opens, so that no marker set
\* on an earlier transport can route a binary frame of the new one.
C36_MarkerEmptyOnOpen ==
    [][\A t \in Transports :
        (transports[t].readyState = "CONNECTING" /\ transports'[t].readyState = "OPEN") =>
            pendingBinaryChunk = None
      ]_vars

\* C37: the close of a superseded transport, handled while the current
\* transport is open and the flag is true, leaves the flag true and leaves
\* pending every RPC that was written to the current transport.
C37_FlagTracksCurrentTransport ==
    [][\A t \in Transports :
        (/\ t # ws
         /\ transports[ws].readyState = "OPEN"
         /\ connected
         /\ OnClose(t)) =>
            /\ connected'
            /\ \A id \in pending :
                    [t |-> ws, type |-> "client_rpc", requestId |-> id] \in sent =>
                        id \in pending'
      ]_vars

\* C38: disconnect() called when the current transport is already closed
\* (during the reconnect delay, or a second time) does not leave the suppress
\* flag set.
C38_FlagOnlyUntilClose ==
    [][(/\ ws # None
        /\ transports[ws].readyState = "CLOSED"
        /\ disconnect) =>
            ~dontAttemptToReconnect'
      ]_vars

\* C39: disconnect() never throws, and before the first connect() it leaves
\* the suppress flag unset.
C39_DisconnectSafe ==
    /\ \A f \in faults : f.in # "disconnect"
    /\ ws = None => ~dontAttemptToReconnect

\* ----------------------------------------------------------- search view
\* triggerSearch() up to its await (searchViewWebviewProvider.ts 212-222):
\* stopStream(lastSearchRequestId) when one is recorded, then search(), which
\* calls rpc("FS.Search", ...) at once; a rejection is caught
triggerSearch ==
    /\ pendingStreams' =
            IF lastSearchRequestId = None THEN pendingStreams
            ELSE StreamsDelete(pendingStreams, lastSearchRequestId)
    /\ consumers' =
            IF lastSearchRequestId = None THEN consumers
            ELSE IF StreamsGet(lastSearchRequestId) = None THEN consumers
            ELSE [consumers EXCEPT ![StreamsGet(lastSearchRequestId)].stopped = TRUE]
    /\ rpcBody("FS.Search", [path |-> "/x"])
    /\ UNCHANGED << pendingBinaryChunk, frames, overwritten >>
    /\ UNCHANGED << connVars, microtasks, faults, limit, codec, xform, ignored,
                    lastSearchRequestId >>

\* the "search" message with an empty query (searchViewWebviewProvider.ts 59-63)
clearSearch ==
    /\ lastSearchRequestId # None
    /\ pendingStreams' = StreamsDelete(pendingStreams, lastSearchRequestId)
    /\ consumers' =
            IF StreamsGet(lastSearchRequestId) = None THEN consumers
            ELSE [consumers EXCEPT ![StreamsGet(lastSearchRequestId)].stopped = TRUE]
    /\ lastSearchRequestId' = None
    /\ UNCHANGED << pendingBinaryChunk, frames, overwritten >>
    /\ UNCHANGED << connVars, rpcVars, sent, faults, limit, codec, xform, ignored >>

\* The search view on a Ready client: searches are triggered at any time, the
\* server answers them and streams their results, the session may be lost.
SearchMaxCalls == 2
SearchMaxFrames == 1
SearchInit ==
    /\ ReadyOn(KeyedServer)
    /\ xform = NoTransform
    /\ limit = [transports |-> 1, calls |-> SearchMaxCalls, frames |-> SearchMaxFrames,
                servers |-> {KeyedServer}, actions |-> {"FS.Search"}, overlap |-> FALSE]
    /\ codec = [responses |-> StreamResponses,
                decoded |-> [r \in StreamResponses, k \in Keys |-> decode(r, k)]]
SearchNext ==
    \/ triggerSearch
    \/ clearSearch
    \/ \E id \in timeouts : requestTimeout(id)
    \/ \E t \in Transports, id \in ServerIds, r \in codec.responses :
            OnServerRpcResponse(t, id, r)
    \/ \E id \in microtasks : AwaitRpcContinues(id)
    \/ \E t \in Transports, id \in ServerIds : OnServerRpcStreamChunk(t, id)
    \/ \E t \in Transports, id \in ServerIds : OnServerRpcStreamStop(t, id)
    \/ \E t \in Transports : OnBinaryMessage(t, NextChunk)
    \/ \E t \in Transports : OnClose(t)
SearchSpec == SearchInit /\ [][SearchNext]_vars

\* C40: at most one search stream is registered with the relay, and once a
\* newer search has been triggered no chunk is delivered to the consumer of an
\* earlier one.
C40_NewerSearchSupersedes ==
    [][/\ Cardinality(DOMAIN pendingStreams') <= 1
       /\ \A c \in DOMAIN consumers :
            (\E id \in DOMAIN rpcAction : id > consumers[c].requestId) =>
                consumers'[c].chunks = consumers[c].chunks
      ]_vars
====
